---- MODULE Spec2Model ----
(***************************************************************************)
(* Sales dashboard (src/streamlit_1.py): a Streamlit script that is run    *)
(* from top to bottom once when the session starts and once more after     *)
(* every change of a widget.  One pass loads the table (cached), draws the *)
(* sidebar filters, filters the table, and computes the metrics and the    *)
(* grouped tables behind the charts.                                       *)
(*                                                                         *)
(* Modelling conventions                                                   *)
(*   - a calendar date is the number of its day (date.toordinal()); a      *)
(*     timestamp is <<date, hour>>;                                        *)
(*   - a price is a whole number of cents, so revenue = quantity * price   *)
(*     is exact;                                                           *)
(*   - a data frame is [cols |-> set of column names, rows |-> sequence of *)
(*     records]; reading a column that is not in cols raises KeyError;     *)
(*   - the input file holds at least one row.                              *)
(***************************************************************************)
EXTENDS Integers, Sequences, FiniteSets, TLC

VARIABLES
    csv,              \* the table in "Données_propres.csv" (never written)
    cache,            \* st.cache_data's entry for load_data(): None or the frame
    date_range,       \* widget state of the date picker (NoState: not rendered)
    cities,           \* widget state of the three multiselects
    products,
    payment_methods,
    time_agg,         \* widget state of the granularity radio
    out               \* what the latest pass produced

vars == <<csv, cache, date_range, cities, products, payment_methods, time_agg, out>>

\* The cache entry and a widget's state are <<>> while there is none, and
\* <<v>> when the value is v.
None == <<>>
NoState == <<>>
Some(v) == <<v>>
ValueOf(s) == s[1]

----------------------------------------------------------------------------
(* Bounds of the model *)

\* Largest number of rows of an input table drawn from RowPool.
MaxRows == 2

\* Largest number of customers of an input table of the many-customers family.
MaxCustomers == 12

----------------------------------------------------------------------------
(* Calendar (datetime.date) *)

IsLeap(y) == (y % 4 = 0 /\ y % 100 # 0) \/ y % 400 = 0

DaysInMonth(y, m) ==
    IF m = 2 THEN (IF IsLeap(y) THEN 29 ELSE 28)
    ELSE IF m \in {4, 6, 9, 11} THEN 30 ELSE 31

\* the days before 1 January of year y
DaysBeforeYear(y) ==
    365 * (y - 1) + ((y - 1) \div 4) - ((y - 1) \div 100) + ((y - 1) \div 400)

\* the days of year y before the first of month m
DaysBeforeMonth(y, m) ==
    <<0, 31, 59, 90, 120, 151, 181, 212, 243, 273, 304, 334>>[m]
        + (IF m > 2 /\ IsLeap(y) THEN 1 ELSE 0)

\* date(y, m, d).toordinal(): a date is the number of its day, 0001-01-01
\* being day 1, so that dates compare as numbers
Date(y, m, d) == DaysBeforeYear(y) + DaysBeforeMonth(y, m) + d

\* the year of the day with ordinal n
YearOf(n) ==
    LET e == (n * 400) \div 146097
    IN  IF n <= DaysBeforeYear(e + 1) THEN e
        ELSE IF n <= DaysBeforeYear(e + 2) THEN e + 1
        ELSE e + 2

\* the month of the day number r (from 0) of year y: (r + 50) \div 32 is the
\* month or the one after it
MonthOf(y, r) ==
    IF DaysBeforeMonth(y, (r + 50) \div 32) > r
    THEN (r + 50) \div 32 - 1
    ELSE (r + 50) \div 32

YMDInYear(y, r) == <<y, MonthOf(y, r), r - DaysBeforeMonth(y, MonthOf(y, r)) + 1>>

\* <<year, month, day>> of the date with ordinal n (date.fromordinal)
YMD(n) == YMDInYear(YearOf(n), n - DaysBeforeYear(YearOf(n)) - 1)

\* A timestamp is <<date, hour>>.
Timestamp(y, m, d, h) == <<Date(y, m, d), h>>

\* Series.dt.date / Timestamp.date(): the time of day is dropped
DateOf(ts) == ts[1]

\* Series.dt.to_period('M').astype(str): the month tag "YYYY-MM", as <<Y, M>>
MonthYear(ts) == LET ymd == YMD(DateOf(ts)) IN <<ymd[1], ymd[2]>>

----------------------------------------------------------------------------
(* Sequence helpers *)

RECURSIVE SumSeq(_)
SumSeq(s) == IF s = <<>> THEN 0 ELSE Head(s) + SumSeq(Tail(s))

Range(s) == {s[i] : i \in 1..Len(s)}

\* Series.unique(): the distinct values in order of first appearance
RECURSIVE Unique(_)
Unique(s) ==
    IF s = <<>> THEN <<>>
    ELSE LET init == Unique(SubSeq(s, 1, Len(s) - 1))
             last == s[Len(s)]
         IN  IF last \in Range(init) THEN init ELSE Append(init, last)

Column(rows, c) == [i \in 1..Len(rows) |-> rows[i][c]]

\* Lexicographic order of the names that occur as group keys
NameOrder ==
    <<"A", "B", "C01", "C02", "C03", "C04", "C05", "C06", "C07", "C08", "C09",
      "C10", "C11", "C12", "C13", "C14", "Lyon", "Paris", "X", "Y", "Z",
      "card", "cash">>

NameRank(n) == CHOOSE i \in 1..Len(NameOrder) : NameOrder[i] = n

\* stable insertion of x into s, which is ordered by ascending Key
RECURSIVE InsertStable(_, _, _)
InsertStable(x, s, Key) ==
    IF s = <<>> THEN <<x>>
    ELSE IF Key[x] < Key[s[Len(s)]]
         THEN Append(InsertStable(x, SubSeq(s, 1, Len(s) - 1), Key), s[Len(s)])
         ELSE Append(s, x)

\* stable sort by ascending Key (a function on the elements): equal keys keep
\* their order in s
RECURSIVE SortStable(_, _)
SortStable(s, Key) ==
    IF s = <<>> THEN <<>>
    ELSE InsertStable(s[Len(s)], SortStable(SubSeq(s, 1, Len(s) - 1), Key), Key)

----------------------------------------------------------------------------
(* The input table and load_data() *)

RequiredColumns ==
    {"order_date", "city", "product", "payment_method", "customer_name",
     "quantity", "price"}

\* df.drop(columns=['Unnamed: 0'], errors='ignore')
DropUnnamed(cols) == cols \ {"Unnamed: 0"}

\* Variant of Revenue: the price alone, the quantity forgotten.
Revenue_PriceOnly(row) == row["price"]

\* df['revenue'] = df['quantity'] * df['price']
Revenue(row) == row["quantity"] * row["price"]

\* The columns load_data() reads by name: 'order_date' on line 54, 'quantity'
\* and 'price' on line 55.  A missing one raises KeyError inside load_data().
ColumnsReadByLoad == {"order_date", "quantity", "price"}

\* load_data(): [ok |-> FALSE] when it raises, else the frame.  Each row keeps
\* its position in the file as "index" (read_csv's RangeIndex).
load_data(file) ==
    IF ~(ColumnsReadByLoad \subseteq file.cols)
    THEN [ok |-> FALSE, error |-> "KeyError"]
    ELSE [ok |-> TRUE,
          df |-> [cols |-> DropUnnamed(file.cols) \cup {"revenue", "month_year"},
                  rows |-> [i \in 1..Len(file.rows) |->
                      [c \in DropUnnamed(file.cols) \cup {"index", "revenue", "month_year"} |->
                          IF c = "index" THEN i - 1
                          ELSE IF c = "revenue" THEN Revenue(file.rows[i])
                          ELSE IF c = "month_year" THEN MonthYear(file.rows[i]["order_date"])
                          ELSE file.rows[i][c]]]]]

----------------------------------------------------------------------------
(* Filter *)

\* data['order_date'].min().date(), .max().date()
MinDate(rows) ==
    CHOOSE d \in Range([i \in 1..Len(rows) |-> DateOf(rows[i]["order_date"])]) :
        \A i \in 1..Len(rows) : d <= DateOf(rows[i]["order_date"])

MaxDate(rows) ==
    CHOOSE d \in Range([i \in 1..Len(rows) |-> DateOf(rows[i]["order_date"])]) :
        \A i \in 1..Len(rows) : DateOf(rows[i]["order_date"]) <= d

\* Variant of FilterMask: an empty selection counts as no restriction.
FilterMask_EmptyMeansAll(row, dr, cs, ps, pms) ==
    /\ DateOf(row["order_date"]) >= dr[1]
    /\ DateOf(row["order_date"]) <= dr[2]
    /\ cs = {} \/ row["city"] \in cs
    /\ ps = {} \/ row["product"] \in ps
    /\ pms = {} \/ row["payment_method"] \in pms

\* Variant of FilterMask: the timestamp itself is compared with the range, so
\* that a row later than midnight of the last day falls out.
FilterMask_Timestamp(row, dr, cs, ps, pms) ==
    /\ DateOf(row["order_date"]) >= dr[1]
    /\ \/ DateOf(row["order_date"]) < dr[2]
       \/ DateOf(row["order_date"]) = dr[2] /\ row["order_date"][2] = 0
    /\ row["city"] \in cs
    /\ row["product"] \in ps
    /\ row["payment_method"] \in pms

\* The boolean mask of lines 97-103 for one row; dr is a pair of dates.
FilterMask(row, dr, cs, ps, pms) ==
    /\ DateOf(row["order_date"]) >= dr[1]
    /\ DateOf(row["order_date"]) <= dr[2]
    /\ row["city"] \in cs
    /\ row["product"] \in ps
    /\ row["payment_method"] \in pms

\* data[mask]: the rows whose mask is True, in the order of data
filtered_data(rows, dr, cs, ps, pms) ==
    LET Keep(row) == FilterMask(row, dr, cs, ps, pms)
    IN  SelectSeq(rows, Keep)

----------------------------------------------------------------------------
(* Metrics *)

\* filtered_data['quantity'].sum()
total_quantity(view) == SumSeq(Column(view, "quantity"))

\* filtered_data['revenue'].sum()
total_revenue(view) == SumSeq(Column(view, "revenue"))

\* filtered_data.shape[0]
order_count(view) == Len(view)

\* filtered_data['customer_name'].nunique()
unique_customer_count(view) == Cardinality(Range(Column(view, "customer_name")))

----------------------------------------------------------------------------
(* Grouped tables *)

\* Series.value_counts().reset_index(): one row per distinct value, by
\* descending count, equal counts in order of first appearance
value_counts(view, col) ==
    LET vals == Column(view, col)
        keys == Unique(vals)
        recs == [i \in 1..Len(keys) |->
                    [key |-> keys[i],
                     count |-> Cardinality({j \in 1..Len(vals) : vals[j] = keys[i]})]]
        Key == [r \in Range(recs) |-> 0 - r.count]
    IN  SortStable(recs, Key)

\* the summed revenue of the rows of view whose column col holds k
GroupRevenue(view, col, k) ==
    LET Mine(row) == row[col] = k
    IN  SumSeq(Column(SelectSeq(view, Mine), "revenue"))

\* groupby(col)['revenue'].sum().reset_index(): one row per distinct value,
\* by ascending key
groupby_sum(view, col) ==
    LET keys == Unique(Column(view, col))
        recs == [i \in 1..Len(keys) |->
                    [key |-> keys[i], revenue |-> GroupRevenue(view, col, keys[i])]]
        Key == [r \in Range(recs) |-> NameRank(r.key)]
    IN  SortStable(recs, Key)

\* the row limit of line 221: nlargest(10)
TopN == 10

\* Variant of nlargest: the series is cut to n rows before it is sorted.
nlargest_CutFirst(s, n) ==
    LET cut == SubSeq(s, 1, IF Len(s) < n THEN Len(s) ELSE n)
        Key == [r \in Range(cut) |-> 0 - r.revenue]
    IN  SortStable(cut, Key)

\* Series.nlargest(n) (keep='first'): by descending value, equal values in the
\* order of the series, cut to n rows
nlargest(s, n) ==
    LET Key == [r \in Range(s) |-> 0 - r.revenue]
        sorted == SortStable(s, Key)
    IN  SubSeq(sorted, 1, IF Len(sorted) < n THEN Len(sorted) ELSE n)

\* line 221
top_clients(view) == nlargest(groupby_sum(view, "customer_name"), TopN)

----------------------------------------------------------------------------
(* Time buckets: groupby(pd.Grouper(key='order_date', freq=...)) *)

\* line 162
freq_map(agg) ==
    CASE agg = "Journalière" -> "D"
      [] agg = "Mensuelle" -> "M"
      [] agg = "Trimestrielle" -> "Q"

\* The number of the period (day, calendar month, calendar quarter) that
\* holds date d; consecutive periods have consecutive numbers.
PeriodIndex(d, freq) ==
    CASE freq = "D" -> d
      [] freq = "M" -> LET ymd == YMD(d) IN ymd[1] * 12 + (ymd[2] - 1)
      [] freq = "Q" -> LET ymd == YMD(d) IN ymd[1] * 4 + ((ymd[2] - 1) \div 3)

\* Variant of PeriodLabel: 'M' and 'Q' bins labelled by their first day
\* (the frequencies 'MS' and 'QS').
PeriodLabel_Start(k, freq) ==
    CASE freq = "D" -> k
      [] freq = "M" -> Date(k \div 12, (k % 12) + 1, 1)
      [] freq = "Q" -> Date(k \div 4, (k % 4) * 3 + 1, 1)

\* The label pandas gives the bin of period k: 'D' bins are labelled by the
\* day, 'M' bins by the last day of the month (month end), 'Q' bins by the
\* last day of the calendar quarter (quarter end, Q-DEC).
PeriodLabel(k, freq) ==
    CASE freq = "D" -> k
      [] freq = "M" ->
            LET y == k \div 12
                m == (k % 12) + 1
            IN  Date(y, m, DaysInMonth(y, m))
      [] freq = "Q" ->
            LET y == k \div 4
                qm == (k % 4) * 3 + 3
            IN  Date(y, qm, DaysInMonth(y, qm))

\* the label of the bin that holds date d
BinLabel(d, freq) == PeriodLabel(PeriodIndex(d, freq), freq)

\* the summed revenue of the rows of view whose period (periods[i] for row i)
\* is k
BinRevenue(view, periods, k) ==
    SumSeq([i \in 1..Len(view) |-> IF periods[i] = k THEN view[i]["revenue"] ELSE 0])

\* Variant of time_data: a plain groupby on the bin label, which yields the
\* bins that hold a row and no other.
time_data_Sparse(view, freq) ==
    IF view = <<>> THEN <<>>
    ELSE LET periods == [i \in 1..Len(view) |->
                            PeriodIndex(DateOf(view[i]["order_date"]), freq)]
             first == PeriodIndex(MinDate(view), freq)
             last == PeriodIndex(MaxDate(view), freq)
             Populated(r) == \E i \in 1..Len(view) : PeriodLabel(periods[i], freq) = r.order_date
         IN  SelectSeq([i \in 1..(last - first + 1) |->
                           [order_date |-> PeriodLabel(first + i - 1, freq),
                            revenue |-> BinRevenue(view, periods, first + i - 1)]],
                       Populated)

\* line 163: pd.Grouper with a frequency resamples: it yields every bin from
\* the bin of the earliest row to the bin of the latest row, and the sum of a
\* bin without rows is 0.  An empty view yields no bin.
time_data(view, freq) ==
    IF view = <<>> THEN <<>>
    ELSE LET periods == [i \in 1..Len(view) |->
                            PeriodIndex(DateOf(view[i]["order_date"]), freq)]
             first == PeriodIndex(MinDate(view), freq)
             last == PeriodIndex(MaxDate(view), freq)
         IN  [i \in 1..(last - first + 1) |->
                 [order_date |-> PeriodLabel(first + i - 1, freq),
                  revenue |-> BinRevenue(view, periods, first + i - 1)]]

----------------------------------------------------------------------------
(* One pass of the script *)

\* The statements of the script that emit an element or can raise, in script
\* order (the line of each is given in MODEL_MAP.json).
Script ==
    <<"style", "load_data", "sidebar_title", "date_input", "cities", "products",
      "payment_methods", "filtered_data", "title", "metric_quantity",
      "metric_revenue", "metric_orders", "metric_customers", "divider", "tabs",
      "header_orders", "fig1", "fig2", "header_time", "time_agg", "fig3",
      "header_products", "fig4", "header_payments", "fig5", "fig6",
      "header_clients", "fig7", "divider_footer", "footer">>

\* the statements that compute without emitting an element
Silent == {"load_data", "filtered_data"}

\* The exception statement step raises, "none" when it raises none.  loaded:
\* whether load_data() returned; cols: the columns of data; dr: the value of
\* the date picker.
Raises(step, loaded, cols, dr) ==
    CASE step = "load_data" -> IF loaded THEN "none" ELSE "KeyError"
      [] step = "cities" -> IF "city" \in cols THEN "none" ELSE "KeyError"
      [] step = "products" -> IF "product" \in cols THEN "none" ELSE "KeyError"
      [] step = "payment_methods" ->
            IF "payment_method" \in cols THEN "none" ELSE "KeyError"
      [] step = "filtered_data" -> IF Len(dr) >= 2 THEN "none" ELSE "IndexError"
      [] step = "metric_customers" ->
            IF "customer_name" \in cols THEN "none" ELSE "KeyError"
      [] OTHER -> "none"

\* the script's default of each widget
DefaultDateRange(rows) == <<MinDate(rows), MaxDate(rows)>>
DefaultTimeAgg == "Journalière"
TimeAggOptions == <<"Journalière", "Mensuelle", "Trimestrielle">>

\* st.cache_data around load_data(): the stored frame on a hit, else a call
cached_load(file, stored) ==
    IF stored # None THEN [ok |-> TRUE, df |-> ValueOf(stored)] ELSE load_data(file)

\* Variant of cache_after: the script filters the stored frame in place, so
\* that the cache keeps the rows of the view of the pass before.
cache_after_View(ld, stored) ==
    IF ~ld.ok THEN None
    ELSE IF out.error = "none" /\ out.filtered_data # <<>>
         THEN Some([ld.df EXCEPT !.rows = out.filtered_data])
         ELSE Some(ld.df)

\* What the cache holds after the pass: data is handed to the script as a copy,
\* so no statement of the script writes the stored frame.
cache_after(ld, stored) ==
    IF stored # None THEN stored ELSE IF ld.ok THEN Some(ld.df) ELSE None

\* data (line 59), when load_data() returned
DataCols(ld) == IF ld.ok THEN ld.df.cols ELSE {}
DataRows(ld) == IF ld.ok THEN ld.df.rows ELSE <<>>

\* Variant of Options: the options are taken from the view of the pass
\* before.
Options_OfView(ld, c) ==
    IF c \notin DataCols(ld) THEN <<>>
    ELSE IF out.error = "none" THEN Unique(Column(out.filtered_data, c))
    ELSE Unique(Column(DataRows(ld), c))

\* data[c].unique(): the options of the multiselect on column c
Options(ld, c) ==
    IF c \in DataCols(ld) THEN Unique(Column(DataRows(ld), c)) ELSE <<>>

\* the value a multiselect returns: its state, by default every option
Selected(ld, state, c) ==
    IF state = NoState THEN Range(Options(ld, c)) ELSE ValueOf(state)

\* the value the date picker returns: its state, by default the whole period
DateRangeValue(ld, state) ==
    IF ~ld.ok THEN <<>>
    ELSE IF state = NoState THEN DefaultDateRange(DataRows(ld))
    ELSE ValueOf(state)

\* the value the radio returns: its state, by default the first option
TimeAggValue(state) == IF state = NoState THEN DefaultTimeAgg ELSE ValueOf(state)

\* the position in Script of the first statement that raises, Len(Script) + 1
\* when none does
StopIndex(ld, dr) ==
    IF \A i \in 1..Len(Script) : Raises(Script[i], ld.ok, DataCols(ld), dr) = "none"
    THEN Len(Script) + 1
    ELSE CHOOSE i \in 1..Len(Script) :
            /\ Raises(Script[i], ld.ok, DataCols(ld), dr) # "none"
            /\ \A j \in 1..(i - 1) : Raises(Script[j], ld.ok, DataCols(ld), dr) = "none"

\* What a run leaves behind when it stops before statement number stop: the
\* cache, the states of the widgets it drew and its outputs.
Outputs(ld, stored, dr, cs, ps, pms, agg, stop) ==
    LET ran == {Script[i] : i \in 1..(stop - 1)}
        view == IF "filtered_data" \in ran
                THEN filtered_data(DataRows(ld), dr, cs, ps, pms) ELSE <<>>
    IN  [cache |-> cache_after(ld, stored),
         date_range |-> IF "date_input" \in ran THEN Some(dr) ELSE NoState,
         cities |-> IF "cities" \in ran THEN Some(cs) ELSE NoState,
         products |-> IF "products" \in ran THEN Some(ps) ELSE NoState,
         payment_methods |-> IF "payment_methods" \in ran THEN Some(pms) ELSE NoState,
         time_agg |-> IF "time_agg" \in ran THEN Some(agg) ELSE NoState,
         out |->
           [error |-> IF stop > Len(Script) THEN "none"
                      ELSE Raises(Script[stop], ld.ok, DataCols(ld), dr),
            raised_at |-> IF stop > Len(Script) THEN "none" ELSE Script[stop],
            emitted |-> LET Shown(s) == s \notin Silent
                        IN  SelectSeq(SubSeq(Script, 1, stop - 1), Shown),
            city_options |-> IF "cities" \in ran THEN Options(ld, "city") ELSE <<>>,
            product_options |->
                IF "products" \in ran THEN Options(ld, "product") ELSE <<>>,
            payment_options |->
                IF "payment_methods" \in ran THEN Options(ld, "payment_method") ELSE <<>>,
            filtered_data |-> view,
            total_quantity |->
                IF "metric_quantity" \in ran THEN total_quantity(view) ELSE 0,
            total_revenue |->
                IF "metric_revenue" \in ran THEN total_revenue(view) ELSE 0,
            order_count |-> IF "metric_orders" \in ran THEN order_count(view) ELSE 0,
            unique_customer_count |->
                IF "metric_customers" \in ran THEN unique_customer_count(view) ELSE 0,
            city_orders |-> IF "fig1" \in ran THEN value_counts(view, "city") ELSE <<>>,
            product_orders |->
                IF "fig2" \in ran THEN value_counts(view, "product") ELSE <<>>,
            time_data |->
                IF "fig3" \in ran THEN time_data(view, freq_map(agg)) ELSE <<>>,
            payment_dist |->
                IF "fig5" \in ran THEN value_counts(view, "payment_method") ELSE <<>>,
            payment_revenue |->
                IF "fig6" \in ran THEN groupby_sum(view, "payment_method") ELSE <<>>,
            top_clients |-> IF "fig7" \in ran THEN top_clients(view) ELSE <<>>]]

\* the run with the values dr, cs, ps, pms, agg of the five widgets
RunWith(ld, stored, dr, cs, ps, pms, agg) ==
    Outputs(ld, stored, dr, cs, ps, pms, agg, StopIndex(ld, dr))

\* the run on the loaded data ld, from the widget states w
RunOn(ld, stored, w) ==
    RunWith(ld, stored, DateRangeValue(ld, w.date_range),
            Selected(ld, w.cities, "city"), Selected(ld, w.products, "product"),
            Selected(ld, w.payment_methods, "payment_method"),
            TimeAggValue(w.time_agg))

\* One run of the script from line 1 to the first raising statement or to the
\* end.  file: the input file; stored: the cache entry; w: the widget states
\* the run starts with.
Pass(file, stored, w) == RunOn(cached_load(file, stored), stored, w)

----------------------------------------------------------------------------
(* Input tables *)

Row(ts, city, product, pm, customer, quantity, price) ==
    [order_date |-> ts, city |-> city, product |-> product, payment_method |-> pm,
     customer_name |-> customer, quantity |-> quantity, price |-> price]

\* The rows input tables are drawn from.  Rows 1 and 2 are the two orders of
\* the scenario of the specification (prices in whole units).  Row 3 is an
\* order of quantity 0 by the customer of row 2, in the evening of the last
\* day of a quarter, two quarters before the others.
RowPool ==
    <<Row(Timestamp(2023, 1, 5, 0), "Paris", "A", "card", "X", 2, 10),
      Row(Timestamp(2023, 2, 10, 0), "Lyon", "B", "cash", "Y", 1, 50),
      Row(Timestamp(2022, 9, 30, 18), "Paris", "A", "card", "Y", 0, 50)>>

\* the row sequences of 1..MaxRows rows of the pool, a row possibly repeated
PoolTables ==
    {[i \in 1..Len(t) |-> RowPool[t[i]]] :
        t \in {u \in UNION {[1..n -> 1..Len(RowPool)] : n \in 1..MaxRows} :
                  \A i \in 1..(Len(u) - 1) : u[i] <= u[i + 1]}}

CustomerNames ==
    <<"C01", "C02", "C03", "C04", "C05", "C06", "C07", "C08", "C09", "C10",
      "C11", "C12", "C13", "C14">>

\* A table of n customers, more than the chart of the top customers shows: one
\* order each on the same day, every fourth from Lyon, and a second order of
\* the first customer.
ManyRows(n) ==
    [i \in 1..(n + 1) |->
        IF i <= n
        THEN Row(Timestamp(2023, 1, 5, 0), IF i % 4 = 0 THEN "Lyon" ELSE "Paris", "A",
                 "card", CustomerNames[i], ((i * 3) % 7) + 1, 10)
        ELSE Row(Timestamp(2023, 1, 5, 0), "Paris", "A", "card", CustomerNames[1], 2, 10)]

ManyTables == {ManyRows(n) : n \in (MaxCustomers - 1)..MaxCustomers}

\* the column sets of an input table: complete, complete with the index column
\* of an earlier to_csv, or one required column missing
ColumnSets ==
    {RequiredColumns, RequiredColumns \cup {"Unnamed: 0"}}
        \cup {RequiredColumns \ {c} : c \in RequiredColumns}

\* the file with the given rows and the columns cs
Table(rows, cs) ==
    [cols |-> cs,
     rows |-> [i \in 1..Len(rows) |->
                  [c \in cs |-> IF c = "Unnamed: 0" THEN i - 1 ELSE rows[i][c]]]]

\* The input files of the model: every table of the pool and the tables of
\* many customers with the complete columns, and the one-row tables of the
\* pool with every column set.
InputFiles ==
    {Table(t, RequiredColumns) : t \in PoolTables \cup ManyTables}
        \cup {Table(t, cs) : t \in {u \in PoolTables : Len(u) = 1}, cs \in ColumnSets}

----------------------------------------------------------------------------
(* The session *)

NotRun ==
    [error |-> "not_run", raised_at |-> "none", emitted |-> <<>>,
     city_options |-> <<>>, product_options |-> <<>>, payment_options |-> <<>>,
     filtered_data |-> <<>>, total_quantity |-> 0, total_revenue |-> 0,
     order_count |-> 0, unique_customer_count |-> 0, city_orders |-> <<>>,
     product_orders |-> <<>>, time_data |-> <<>>, payment_dist |-> <<>>,
     payment_revenue |-> <<>>, top_clients |-> <<>>]

Init ==
    /\ csv \in InputFiles
    /\ cache = None
    /\ date_range = NoState
    /\ cities = NoState
    /\ products = NoState
    /\ payment_methods = NoState
    /\ time_agg = NoState
    /\ out = NotRun

Widgets ==
    [date_range |-> date_range, cities |-> cities, products |-> products,
     payment_methods |-> payment_methods, time_agg |-> time_agg]

\* run the script with widget states w and keep what it leaves behind
Rerun(w) ==
    LET p == Pass(csv, cache, w)
    IN  /\ cache' = p.cache
        /\ date_range' = p.date_range
        /\ cities' = p.cities
        /\ products' = p.products
        /\ payment_methods' = p.payment_methods
        /\ time_agg' = p.time_agg
        /\ out' = p.out
        /\ UNCHANGED csv

Drawn(widget) == widget \in Range(out.emitted)

\* the session opens: the first run of the script
FirstRun ==
    /\ out = NotRun
    /\ Rerun(Widgets)

\* The days the date picker offers: every day from min_date to max_date
\* (lines 66-73), with or without an order.  The filter compares a picked day
\* with the order days only, so every day of a stretch without orders gives
\* the same pass; the model offers the order days and the first day of each
\* such stretch.
PickableDays ==
    LET rows == ValueOf(cache).rows
        days == {DateOf(rows[i]["order_date"]) : i \in 1..Len(rows)}
    IN  days \cup {d + 1 : d \in {e \in days : e + 1 <= MaxDate(rows)}}

\* The values the date picker delivers: a pair start <= end within
\* [min_date, max_date], or, after the first click of a new range, the start
\* date alone.
DateRangeValues ==
    {<<s>> : s \in PickableDays}
        \cup {<<p[1], p[2]>> : p \in {q \in PickableDays \X PickableDays : q[1] <= q[2]}}

SetDateRange ==
    /\ Drawn("date_input")
    /\ \E v \in DateRangeValues :
        /\ Some(v) # date_range
        /\ Rerun([Widgets EXCEPT !.date_range = Some(v)])

SetCities ==
    /\ Drawn("cities")
    /\ \E v \in SUBSET Range(out.city_options) :
        /\ Some(v) # cities
        /\ Rerun([Widgets EXCEPT !.cities = Some(v)])

SetProducts ==
    /\ Drawn("products")
    /\ \E v \in SUBSET Range(out.product_options) :
        /\ Some(v) # products
        /\ Rerun([Widgets EXCEPT !.products = Some(v)])

SetPaymentMethods ==
    /\ Drawn("payment_methods")
    /\ \E v \in SUBSET Range(out.payment_options) :
        /\ Some(v) # payment_methods
        /\ Rerun([Widgets EXCEPT !.payment_methods = Some(v)])

SetTimeAgg ==
    /\ Drawn("time_agg")
    /\ \E v \in Range(TimeAggOptions) :
        /\ Some(v) # time_agg
        /\ Rerun([Widgets EXCEPT !.time_agg = Some(v)])

Next ==
    \/ FirstRun
    \/ SetDateRange
    \/ SetCities
    \/ SetProducts
    \/ SetPaymentMethods
    \/ SetTimeAgg

Spec == Init /\ [][Next]_vars

----------------------------------------------------------------------------
(* Reference definitions for the properties below.  They are written from  *)
(* the file csv and the current widget values, not from the operators of   *)
(* the pass.                                                               *)

RECURSIVE SumOver(_, _)
SumOver(S, f) ==
    IF S = {} THEN 0
    ELSE LET x == CHOOSE y \in S : TRUE
         IN  f[x] + SumOver(S \ {x}, f)

\* the latest pass has run the statement named step
Ran(step) ==
    /\ out.error # "not_run"
    /\ \E i \in 1..Len(Script) :
          /\ Script[i] = step
          /\ \/ out.raised_at = "none"
             \/ \E j \in (i + 1)..Len(Script) : Script[j] = out.raised_at

\* positions 1..n of the rows of the file
FileRows == 1..Len(csv.rows)

\* the file holds every required column
Complete == RequiredColumns \subseteq csv.cols

\* the current criteria hold of row i of the file (all filters drawn, the date
\* range a pair)
Matches(i) ==
    /\ ValueOf(date_range)[1] <= csv.rows[i]["order_date"][1]
    /\ csv.rows[i]["order_date"][1] <= ValueOf(date_range)[2]
    /\ csv.rows[i]["city"] \in ValueOf(cities)
    /\ csv.rows[i]["product"] \in ValueOf(products)
    /\ csv.rows[i]["payment_method"] \in ValueOf(payment_methods)

Matching == {i \in FileRows : Matches(i)}

\* quantity * price of row i of the file
RowRevenue == [i \in FileRows |-> csv.rows[i]["quantity"] * csv.rows[i]["price"]]
RowQuantity == [i \in FileRows |-> csv.rows[i]["quantity"]]

----------------------------------------------------------------------------
(* C1 *)

\* C1: after a pass that ran the filter, the filtered view holds exactly the
\* rows of the file whose calendar date lies in the selected range (bounds
\* included, time of day ignored) and whose city, product and payment method
\* are selected: each such row once, no other row, nothing that is not a row
\* of the file.
C1_FilteredViewExact ==
    (Complete /\ Ran("filtered_data")) =>
        /\ ValueOf(date_range)[1] <= ValueOf(date_range)[2]
        /\ \A j \in 1..Len(out.filtered_data) :
              LET r == out.filtered_data[j]
              IN  /\ r["index"] + 1 \in FileRows
                  /\ \A c \in RequiredColumns : r[c] = csv.rows[r["index"] + 1][c]
        /\ \A i \in FileRows :
              Cardinality({j \in 1..Len(out.filtered_data) :
                              out.filtered_data[j]["index"] = i - 1})
                  = IF Matches(i) THEN 1 ELSE 0

\* C1 witness: the view keeps a row placed in the evening of the last day of
\* the range and drops another row of the file.
C1_Witness ==
    /\ Complete /\ Ran("filtered_data")
    /\ Len(out.filtered_data) < Len(csv.rows)
    /\ \E j \in 1..Len(out.filtered_data) :
          /\ out.filtered_data[j]["order_date"][1] = ValueOf(date_range)[2]
          /\ out.filtered_data[j]["order_date"][2] > 0

----------------------------------------------------------------------------
(* C2 *)

AllSequencesEmpty ==
    /\ out.city_orders = <<>>
    /\ out.product_orders = <<>>
    /\ out.payment_dist = <<>>
    /\ out.payment_revenue = <<>>
    /\ out.top_clients = <<>>
    /\ out.time_data = <<>>

SomeSelectionEmpty ==
    /\ Ran("payment_methods")
    /\ \/ ValueOf(cities) = {}
       \/ ValueOf(products) = {}
       \/ ValueOf(payment_methods) = {}

\* C2: when one of the three selections is empty and the date range is a pair,
\* the pass ends without an error, the view is empty, the four metrics are 0
\* and every grouped table, the time table of the chosen granularity included,
\* is empty.
C2_EmptySelectionGivesEmptyOutputs ==
    (Complete /\ SomeSelectionEmpty /\ Len(ValueOf(date_range)) = 2) =>
        /\ out.error = "none"
        /\ out.raised_at = "none"
        /\ out.emitted[Len(out.emitted)] = "footer"
        /\ out.filtered_data = <<>>
        /\ out.order_count = 0
        /\ out.total_quantity = 0
        /\ out.total_revenue = 0
        /\ out.unique_customer_count = 0
        /\ AllSequencesEmpty

\* C2 witness: exactly one selection is empty, the range covers every row, and
\* the granularity is quarterly.
C2_Witness ==
    /\ Complete /\ SomeSelectionEmpty /\ Len(ValueOf(date_range)) = 2
    /\ ValueOf(cities) = {}
    /\ ValueOf(products) # {} /\ ValueOf(payment_methods) # {}
    /\ Len(csv.rows) >= 2
    /\ \A i \in FileRows :
          /\ ValueOf(date_range)[1] <= csv.rows[i]["order_date"][1]
          /\ csv.rows[i]["order_date"][1] <= ValueOf(date_range)[2]
    /\ time_agg = Some("Trimestrielle")
    /\ out.error = "none"

----------------------------------------------------------------------------
(* C3 *)

\* C3: each metric the pass displayed is the reference value over the rows of
\* the file that match the current criteria: the sum of quantity, the sum of
\* quantity * price, the number of rows, the number of distinct customers.
C3_MetricsOfCurrentView ==
    /\ Ran("metric_quantity") => out.total_quantity = SumOver(Matching, RowQuantity)
    /\ Ran("metric_revenue") => out.total_revenue = SumOver(Matching, RowRevenue)
    /\ Ran("metric_orders") => out.order_count = Cardinality(Matching)
    /\ Ran("metric_customers") =>
          out.unique_customer_count
              = Cardinality({csv.rows[i]["customer_name"] : i \in Matching})

\* C3 witness: a view narrower than the file, with more orders than customers
\* and a positive revenue.
C3_Witness ==
    /\ out.error = "none"
    /\ 0 < out.unique_customer_count
    /\ out.unique_customer_count < out.order_count
    /\ out.order_count < Len(csv.rows)
    /\ out.total_revenue > 0
    /\ out.total_revenue < SumOver(FileRows, RowRevenue)

----------------------------------------------------------------------------
(* C4, C5: revenue over time *)

\* the calendar date of row i of the file
RowDate == [i \in FileRows |-> csv.rows[i]["order_date"][1]]

\* dates d and e lie in the same bucket of granularity agg
SameBucket(d, e, agg) ==
    CASE agg = "Journalière" -> d = e
      [] agg = "Mensuelle" -> YMD(d)[1] = YMD(e)[1] /\ YMD(d)[2] = YMD(e)[2]
      [] agg = "Trimestrielle" ->
            /\ YMD(d)[1] = YMD(e)[1]
            /\ (YMD(d)[2] - 1) \div 3 = (YMD(e)[2] - 1) \div 3

\* the matching rows of the file in the bucket of date d
InBucket(d, agg) == {i \in Matching : SameBucket(d, RowDate[i], agg)}

\* C4 as the specification states it: one row for each bucket that holds a
\* record of the view, and no row for a bucket that holds none.
C4_NoRowForEmptyBucket ==
    Ran("fig3") =>
        LET agg == ValueOf(time_agg)
            td == out.time_data
        IN  /\ \A i \in Matching :
                  Cardinality({k \in 1..Len(td) :
                      SameBucket(td[k].order_date, RowDate[i], agg)}) = 1
            /\ \A k \in 1..Len(td) : InBucket(td[k].order_date, agg) # {}

\* C4: the time table has one row for every bucket from the bucket of the
\* earliest record of the view to the bucket of its latest record, in
\* ascending order and without a hole: a bucket of that span without a record
\* is a row of revenue 0.  The revenue of a row is the summed revenue of the
\* records of its bucket, and an empty view gives an empty table.
C4_OneRowPerBucketOfSpan ==
    Ran("fig3") =>
        LET agg == ValueOf(time_agg)
            td == out.time_data
        IN  /\ Matching = {} => td = <<>>
            /\ \A i \in Matching :
                  Cardinality({k \in 1..Len(td) :
                      SameBucket(td[k].order_date, RowDate[i], agg)}) = 1
            /\ \A k \in 1..Len(td) :
                  /\ \E i \in Matching :
                        \/ RowDate[i] <= td[k].order_date
                        \/ SameBucket(td[k].order_date, RowDate[i], agg)
                  /\ \E i \in Matching :
                        \/ td[k].order_date <= RowDate[i]
                        \/ SameBucket(td[k].order_date, RowDate[i], agg)
                  /\ td[k].revenue = SumOver(InBucket(td[k].order_date, agg), RowRevenue)
            /\ \A k \in 1..(Len(td) - 1) :
                  /\ td[k].order_date < td[k + 1].order_date
                  /\ \A d \in td[k].order_date..td[k + 1].order_date :
                        \/ SameBucket(d, td[k].order_date, agg)
                        \/ SameBucket(d, td[k + 1].order_date, agg)

\* C4 witness: a row of the time table, between two others, whose bucket holds
\* no record of the view.
C4_Witness ==
    /\ Ran("fig3")
    /\ \E k \in 2..(Len(out.time_data) - 1) :
          /\ InBucket(out.time_data[k].order_date, ValueOf(time_agg)) = {}
          /\ out.time_data[k].revenue = 0
    /\ \E k \in 1..Len(out.time_data) : out.time_data[k].revenue > 0

\* the first day of the month, of the quarter, of date d
FirstDayKey(d, agg) ==
    CASE agg = "Journalière" -> d
      [] agg = "Mensuelle" -> Date(YMD(d)[1], YMD(d)[2], 1)
      [] agg = "Trimestrielle" ->
            Date(YMD(d)[1], 3 * ((YMD(d)[2] - 1) \div 3) + 1, 1)

\* the last day of the month, of the quarter (31 March, 30 June, 30 September,
\* 31 December), of date d
LastDayKey(d, agg) ==
    CASE agg = "Journalière" -> d
      [] agg = "Mensuelle" ->
            Date(YMD(d)[1], YMD(d)[2], DaysInMonth(YMD(d)[1], YMD(d)[2]))
      [] agg = "Trimestrielle" ->
            LET q == (YMD(d)[2] - 1) \div 3
            IN  Date(YMD(d)[1], 3 * q + 3, IF q \in {0, 3} THEN 31 ELSE 30)

\* C5 as the specification states it: the key of the bucket of a record is the
\* record's date (daily), the first day of its month (monthly), the first day
\* of its quarter (quarterly).
C5_KeyIsFirstDay ==
    Ran("fig3") =>
        \A i \in Matching :
            \E k \in 1..Len(out.time_data) :
                out.time_data[k].order_date = FirstDayKey(RowDate[i], ValueOf(time_agg))

\* C5: the key of the bucket of a record dated d is d itself (daily, the time
\* of day dropped), the last day of d's month (monthly), the last day of d's
\* calendar quarter (quarterly); the row of that key sums the revenue of the
\* records with that key.
C5_KeyIsLastDay ==
    Ran("fig3") =>
        \A i \in Matching :
            LET key == LastDayKey(RowDate[i], ValueOf(time_agg))
                at == {k \in 1..Len(out.time_data) : out.time_data[k].order_date = key}
            IN  /\ Cardinality(at) = 1
                /\ \A k \in at :
                      out.time_data[k].revenue
                          = SumOver({j \in Matching :
                                LastDayKey(RowDate[j], ValueOf(time_agg)) = key},
                              RowRevenue)

\* C5 witness: the two orders of 2023-01-05 (revenue 20) and 2023-02-10
\* (revenue 50), everything selected, monthly: the rows (2023-01-31, 20) and
\* (2023-02-28, 50).
C5_Witness ==
    /\ Ran("fig3")
    /\ ValueOf(time_agg) = "Mensuelle"
    /\ Len(csv.rows) = 2 /\ Matching = {1, 2}
    /\ RowDate[1] = Date(2023, 1, 5) /\ RowRevenue[1] = 20
    /\ RowDate[2] = Date(2023, 2, 10) /\ RowRevenue[2] = 50
    /\ out.time_data = <<[order_date |-> Date(2023, 1, 31), revenue |-> 20],
                         [order_date |-> Date(2023, 2, 28), revenue |-> 50]>>

----------------------------------------------------------------------------
(* C6 *)

\* the customers of the matching rows, and the summed revenue of customer c
ViewCustomers == {csv.rows[i]["customer_name"] : i \in Matching}
CustomerRevenue(c) ==
    SumOver({i \in Matching : csv.rows[i]["customer_name"] = c}, RowRevenue)

\* C6: the table of the top customers has min(10, number of customers of the
\* view) rows, one per customer, each with the customer's summed revenue, in
\* non-increasing order of revenue, and no customer left out has a larger
\* revenue than a customer of the table.
C6_TopCustomers ==
    Ran("fig7") =>
        LET top == out.top_clients
            kept == {top[k].key : k \in 1..Len(top)}
        IN  /\ Len(top) = IF Cardinality(ViewCustomers) < 10
                          THEN Cardinality(ViewCustomers) ELSE 10
            /\ Cardinality(kept) = Len(top)
            /\ kept \subseteq ViewCustomers
            /\ \A k \in 1..Len(top) : top[k].revenue = CustomerRevenue(top[k].key)
            /\ \A k \in 1..(Len(top) - 1) : top[k].revenue >= top[k + 1].revenue
            /\ \A c \in ViewCustomers \ kept :
                  \A k \in 1..Len(top) : CustomerRevenue(c) <= top[k].revenue

\* C6 witness: a view of more than 10 customers, so that the table leaves
\* some out, with a customer of several orders in the table.
C6_Witness ==
    /\ Ran("fig7")
    /\ Cardinality(ViewCustomers) > 10
    /\ Len(out.top_clients) = 10
    /\ \E k \in 1..10 :
          Cardinality({i \in Matching :
              csv.rows[i]["customer_name"] = out.top_clients[k].key}) > 1

----------------------------------------------------------------------------
(* C7 *)

\* the distinct values of column c in the file
Distinct(c) == {csv.rows[i][c] : i \in FileRows}

\* C7: the options a picker offers are the distinct values of its column in
\* the whole file, each once, whatever the current selections.
C7_OptionsFromFullData ==
    /\ Ran("cities") =>
          /\ Range(out.city_options) = Distinct("city")
          /\ Len(out.city_options) = Cardinality(Distinct("city"))
    /\ Ran("products") =>
          /\ Range(out.product_options) = Distinct("product")
          /\ Len(out.product_options) = Cardinality(Distinct("product"))
    /\ Ran("payment_methods") =>
          /\ Range(out.payment_options) = Distinct("payment_method")
          /\ Len(out.payment_options) = Cardinality(Distinct("payment_method"))

\* C7 witness: a city is deselected, and the product picker still offers a
\* product that no row of the view has.
C7_Witness ==
    /\ out.error = "none"
    /\ ValueOf(cities) # Distinct("city")
    /\ out.filtered_data # <<>>
    /\ \E p \in Range(out.product_options) :
          \A j \in 1..Len(out.filtered_data) : out.filtered_data[j]["product"] # p

----------------------------------------------------------------------------
(* C8 *)

\* C8: when the file lacks a required column, the pass fails inside
\* load_data(), before any element of the dashboard is produced.
C8_MissingColumnFailsInLoad ==
    (~Complete /\ out.error # "not_run") =>
        /\ out.error = "KeyError"
        /\ out.raised_at = "load_data"
        /\ Range(out.emitted) \subseteq {"style"}

----------------------------------------------------------------------------
(* C9 *)

\* the date picker returned a range that is not a pair start <= end
DegenerateRange ==
    /\ Ran("payment_methods")
    /\ \/ Len(ValueOf(date_range)) < 2
       \/ ValueOf(date_range)[1] > ValueOf(date_range)[2]

\* C9: when the date range is degenerate (only a start chosen, or the start
\* after the end), the filter raises no error and the view is empty.
C9_DegenerateRangeGivesEmptyView ==
    (Complete /\ DegenerateRange) =>
        /\ out.error = "none"
        /\ out.filtered_data = <<>>

----------------------------------------------------------------------------
(* C10 *)

\* C10: after every pass the cache holds the data set as load_data() made it
\* from the file, and the outputs of the pass are those of a pass of a new
\* session (empty cache) on the same file with the current widget values:
\* they depend on the loaded data and the current criteria, not on the passes
\* before.
C10_OutputsDependOnDataAndCriteria ==
    out.error # "not_run" =>
        /\ cache = IF load_data(csv).ok THEN Some(load_data(csv).df) ELSE None
        /\ out = Pass(csv, None, Widgets).out

\* C10 witness: a pass served from the cache after at least three changes:
\* cities, products and granularity all differ from their defaults.
C10_Witness ==
    /\ out.error = "none"
    /\ cache # None
    /\ ValueOf(cities) # Distinct("city")
    /\ ValueOf(products) # Distinct("product")
    /\ ValueOf(time_agg) # "Journalière"
    /\ out.filtered_data # <<>>

====
